---- MODULE Spec2Model ----
(***************************************************************************)
(* Sampling and level-set quadrature engine of utils/math.ts               *)
(* (src/unnamed/part_003): generatePoints, calculateMeasure,               *)
(* getMeasureCurve, integrateMeasureCurve, getLebesgueSlices,              *)
(* getLayerCakeSlices, getSliceGeometry; the function catalog FUNCTIONS;   *)
(* and the Riemann sum of components/RiemannVisualizer.tsx.                *)
(*                                                                         *)
(* Numbers.  The engine works on JavaScript numbers; the model works in    *)
(* exact arithmetic on integers:                                           *)
(*   - an x coordinate or a measure is held multiplied by the sample       *)
(*     count of the routine (unit 1/samples), so that the grid point       *)
(*     lo + j*dx, dx = (hi-lo)/samples, is the integer lo*samples +        *)
(*     j*(hi-lo) and dx itself is the integer hi-lo;                       *)
(*   - a function value is an integer number of thousandths, so that the   *)
(*     tolerance 0.001 of the last band is the integer 1;                  *)
(*   - a level (yLower, yUpper, t, dy) is a fraction [n, d] with d >= 0,   *)
(*     because (hi-lo)/levels need not be a whole number of thousandths.   *)
(* NaN is a distinguished value for which every comparison is false.       *)
(***************************************************************************)
EXTENDS Integers, Sequences, FiniteSets, TLC

\* ------------------------------------------------------------ bounds ----
\* x-resolution of the slicers and default of calculateMeasure (400 in the
\* source); the model scans Samples cells, Samples+1 sample points.
Samples == 3
\* largest band count handed to the slicers
MaxLevels == 2
\* largest step count handed to getMeasureCurve
MaxSteps == 2
\* largest point count handed to generatePoints
MaxPoints == 3

\* largest partition count below 10 set on the partitions slider
MaxPartitions == 4
\* the outcomes of Math.random() > 0.5 repeat with this period
RandPeriod == 3

\* ------------------------------------------------- program constants ----
\* the partition count of the Riemann sum in infinite mode
InfinitePartitions == 1000
\* the default of the parameter samples of calculateMeasure
DefaultSamples == 400
\* the number of thresholds of integrateMeasureCurve
IntegrateSteps == 400
\* the tolerance 0.001 added to the last band's upper bound, in thousandths
Epsilon == 1
\* the value of currentStart that means "no run is open": -1
Sentinel == -1
\* the same value in the x unit of the slicers (1/Samples)
NoRun == Sentinel * Samples
\* a value fn may return for which every comparison is false
NaN == 1000000

\* -------------------------------------------------------- input sets ----
\* domains [lo, hi]: -1 is the first sample point of <<-1, 0>> and the last
\* of <<-2, -1>>; <<1, 1>> and <<1, 0>> are the invalid domains lo >= hi.
ValidDomains == {<<-1, 0>>, <<0, 1>>, <<-2, -1>>}
InvalidDomains == {<<1, 1>>, <<1, 0>>}
Domains == ValidDomains \cup InvalidDomains
\* value ranges [lo, hi] in thousandths: increasing, empty and reversed
YRanges == {<<0, 2>>, <<1, 1>>, <<2, 0>>}
\* finite function values: for the range <<0, 2>> these are its minimum, the
\* boundary of its two halves, its maximum, maximum + Epsilon and a value
\* above that; 0 lies below the range <<1, 1>>
FiniteVals == {0, 1, 2, 3, 4}
\* function values of the calls that return a non-finite value
NonFiniteVals == {0, 2, NaN}
\* thresholds handed to calculateMeasure and getSliceGeometry
Thresholds == {0, 1, 3, 4}

\* ---------------------------------------------------------- numbers ----
Rat(n, d) == [n |-> n, d |-> d]
\* y >= q, y > q, y < q, y <= q for a function value y and a level q = n/d
GE(y, q) == y # NaN /\ y * q.d >= q.n
GT(y, q) == y # NaN /\ y * q.d > q.n
LT(y, q) == y # NaN /\ y * q.d < q.n
LE(y, q) == y # NaN /\ y * q.d <= q.n
\* q1 < q2 for two levels
RatLT(q1, q2) == q1.n * q2.d < q2.n * q1.d

\* the j-th grid point lo + j*dx of a routine with `samples` cells,
\* in units of 1/samples
X(domain, j, samples) == domain[1] * samples + j * (domain[2] - domain[1])
\* dx = (hi - lo)/samples in units of 1/samples
DX(domain) == domain[2] - domain[1]
\* the points at which a routine with Samples cells may evaluate fn
Grid(domain) == {X(domain, j, Samples) : j \in 0..Samples}
\* the functions fn over a domain, with values in V
Fns(domain, V) == [Grid(domain) -> V]

\* ---------------------------------------------------------- catalog ----
FunctionType ==
    {"X_SQUARED", "SINE", "LINEAR", "QUADRATIC_PEAK", "STEP", "DIRICHLET"}
\* the functions whose values the model computes: sin(pi*x) of SINE has no
\* exact value in this arithmetic
ExactFunctions == FunctionType \ {"SINE"}

\* domain and range of a catalog entry; the range is in thousandths
FUNCTIONS(id) ==
    CASE id = "X_SQUARED"      -> [domain |-> <<0, 1>>, range |-> <<0, 1200>>]
      [] id = "SINE"           -> [domain |-> <<0, 2>>, range |-> <<-1200, 1200>>]
      [] id = "LINEAR"         -> [domain |-> <<0, 1>>, range |-> <<0, 2200>>]
      [] id = "QUADRATIC_PEAK" -> [domain |-> <<1, 5>>, range |-> <<0, 4500>>]
      [] id = "STEP"           -> [domain |-> <<0, 1>>, range |-> <<0, 1000>>]
      [] id = "DIRICHLET"      -> [domain |-> <<0, 1>>, range |-> <<0, 1200>>]

\* x*x read as x: the square is lost
Fn_SquareLost(id, p, q, random) ==
    CASE id = "X_SQUARED"      -> Rat(p * q, q * q)
      [] id = "LINEAR"         -> Rat(2 * p, q)
      [] id = "QUADRATIC_PEAK" -> Rat(4 * q * q - (p - 3 * q) * (p - 3 * q), q * q)
      [] id = "STEP"           -> IF 10 * p < 3 * q THEN Rat(2, 10)
                                  ELSE IF 10 * p < 7 * q THEN Rat(8, 10)
                                  ELSE Rat(5, 10)
      [] id = "DIRICHLET"      -> Rat(IF random THEN 1 ELSE 0, 1)

\* config.fn(x) at x = p/q, as a fraction whose denominator depends on id
\* and q only; `random` is the outcome of Math.random() > 0.5 of this call
Fn(id, p, q, random) ==
    CASE id = "X_SQUARED"      -> Rat(p * p, q * q)
      [] id = "LINEAR"         -> Rat(2 * p, q)
      [] id = "QUADRATIC_PEAK" -> Rat(4 * q * q - (p - 3 * q) * (p - 3 * q), q * q)
      [] id = "STEP"           -> IF 10 * p < 3 * q THEN Rat(2, 10)
                                  ELSE IF 10 * p < 7 * q THEN Rat(8, 10)
                                  ELSE Rat(5, 10)
      [] id = "DIRICHLET"      -> Rat(IF random THEN 1 ELSE 0, 1)

\* the catalog functions whose values on the grid of calculateMeasure are
\* whole numbers of thousandths
TableFunctions == {"LINEAR", "STEP"}
\* partition counts of the slider (2..100): the small ones, 10 and 100
PartitionCounts == (2..MaxPartitions) \cup {10, 100}

\* the outcomes of Math.random() > 0.5 over the calls of one run
Randoms == [0..(RandPeriod - 1) -> BOOLEAN]
NoRandom == [k \in 0..(RandPeriod - 1) |-> FALSE]

\* ------------------------------------------------------------ Sampler ----
\* x of point i of generatePoints, start + i*stepSize with stepSize =
\* (end - start)/(steps - 1), in units of 1/(steps - 1); for steps = 1 the
\* step size is a quotient by 0 and 0 * stepSize is NaN
PointX(domain, i, steps) ==
    IF steps = 1 THEN NaN ELSE X(domain, i, steps - 1)
\* the points at which generatePoints evaluates fn
PointGrid(domain, steps) == {PointX(domain, i, steps) : i \in 0..(steps - 1)}

\* the loop run for i < steps - 1: the point at domain[1] is missing
generatePoints_Short(fn, domain, steps) ==
    [k \in 1..(steps - 1) |->
        LET x == PointX(domain, k - 1, steps) IN [x |-> x, y |-> fn[x]]]

generatePoints(fn, domain, steps) ==
    [k \in 1..steps |->
        LET x == PointX(domain, k - 1, steps) IN [x |-> x, y |-> fn[x]]]

\* ----------------------------------------------------- Measure Engine ----
\* the test fn(x) < t
InSuperLevel_Below(y, t) == LT(y, t)

\* the test of line 95: fn(x) > t
InSuperLevel(y, t) == GT(y, t)

\* what iterations a..b-1 of the loop of calculateMeasure add to `measure`,
\* in units of 1/samples; the iterations are summed by halves
RECURSIVE MeasureLoop(_, _, _, _, _, _)
MeasureLoop(fn, domain, t, samples, a, b) ==
    IF b <= a THEN 0
    ELSE IF b = a + 1
         THEN IF InSuperLevel(fn[X(domain, a, samples)], t) THEN DX(domain) ELSE 0
    ELSE LET m == (a + b) \div 2
         IN  MeasureLoop(fn, domain, t, samples, a, m)
             + MeasureLoop(fn, domain, t, samples, m, b)

\* the loop run for i <= samples: the sample at domain[1] is counted too
calculateMeasure_Inclusive(fn, domain, t, samples) ==
    IF samples = 0 THEN 0 ELSE MeasureLoop(fn, domain, t, samples, 0, samples + 1)

calculateMeasure(fn, domain, t, samples) ==
    MeasureLoop(fn, domain, t, samples, 0, samples)

\* the i-th threshold yRange[0] + i*dt of getMeasureCurve, dt = width/steps
CurveT(yRange, steps, i) ==
    Rat(yRange[1] * steps + i * (yRange[2] - yRange[1]), steps)

\* the loop run for i < steps: the point at yRange[1] is missing
getMeasureCurve_Short(fn, domain, yRange, steps) ==
    [k \in 1..steps |->
        LET t == CurveT(yRange, steps, k - 1)
        IN  [x |-> t, y |-> calculateMeasure(fn, domain, t, Samples)]]

getMeasureCurve(fn, domain, yRange, steps) ==
    [k \in 1..(steps + 1) |->
        LET t == CurveT(yRange, steps, k - 1)
        IN  [x |-> t, y |-> calculateMeasure(fn, domain, t, Samples)]]

\* --------------------------------------------------- Level-Set Slicer ----
\* the scan state at the start of a band: currentStart, measure, segments
ScanInit == [currentStart |-> NoRun, measure |-> 0, segments |-> <<>>]

\* the run is closed without the reset currentStart = -1
ScanBody_NoReset(s, x, inRange, dx) ==
    IF inRange
    THEN [s EXCEPT !.currentStart = IF @ = NoRun THEN x ELSE @,
                   !.measure = @ + dx]
    ELSE IF s.currentStart # NoRun
         THEN [s EXCEPT !.segments = Append(@, <<s.currentStart, x>>)]
         ELSE s

\* one iteration of the scan at sample point x: the if/else of lines 166-174
ScanBody(s, x, inRange, dx) ==
    IF inRange
    THEN [s EXCEPT !.currentStart = IF @ = NoRun THEN x ELSE @,
                   !.measure = @ + dx]
    ELSE IF s.currentStart # NoRun
         THEN [s EXCEPT !.segments = Append(@, <<s.currentStart, x>>),
                        !.currentStart = NoRun]
         ELSE s

\* the scan state after the first j iterations (sample points 0..j-1);
\* inBand[k] is the value of inRange at sample point k
RECURSIVE ScanLoop(_, _, _)
ScanLoop(domain, inBand, j) ==
    IF j = 0 THEN ScanInit
    ELSE ScanBody(ScanLoop(domain, inBand, j - 1),
                  X(domain, j - 1, Samples), inBand[j - 1], DX(domain))

\* after the loop: a run still open is closed at domain[1] (lines 176-178)
ScanFinish(s, domain) ==
    IF s.currentStart # NoRun
    THEN [s EXCEPT !.segments =
                       Append(@, <<s.currentStart, domain[2] * Samples>>)]
    ELSE s

\* the loop starts at j = 1: the sample at domain[0] is not scanned
Scan_SkipsFirst(domain, inBand) ==
    ScanFinish(ScanLoop(domain, [inBand EXCEPT ![0] = FALSE], Samples + 1), domain)

\* the whole scan of one band: for (j = 0; j <= samples; j++) and the close
Scan(domain, inBand) ==
    ScanFinish(ScanLoop(domain, inBand, Samples + 1), domain)

\* yLower of band i: yRange[0] + i*dy, dy = (yRange[1] - yRange[0])/levels
YLower(yRange, levels, i) ==
    Rat(yRange[1] * levels + i * (yRange[2] - yRange[1]), levels)
\* dy
DY(yRange, levels) == Rat(yRange[2] - yRange[1], levels)
\* q + dy and q + 0.001 for a level q with denominator levels
PlusDY(q, yRange) == Rat(q.n + (yRange[2] - yRange[1]), q.d)
PlusEpsilon(q) == Rat(q.n + Epsilon * q.d, q.d)

\* every band closed above: y <= yUpper for the bands below the last
InBandLebesgue_ClosedAbove(y, yLower, yUpper, isLast) ==
    GE(y, yLower) /\ (IF isLast THEN LE(y, PlusEpsilon(yUpper))
                                ELSE LE(y, yUpper))

\* the last band without the tolerance: y <= yUpper
InBandLebesgue_NoTolerance(y, yLower, yUpper, isLast) ==
    GE(y, yLower) /\ (IF isLast THEN LE(y, yUpper) ELSE LT(y, yUpper))

\* line 164: y >= yLower && (last ? y <= yUpper + 0.001 : y < yUpper)
InBandLebesgue(y, yLower, yUpper, isLast) ==
    GE(y, yLower) /\ (IF isLast THEN LE(y, PlusEpsilon(yUpper))
                                ELSE LT(y, yUpper))

\* the sample points of band i of getLebesgueSlices that are in range
LebesgueInBand(fn, domain, yRange, levels, i) ==
    LET yLower == YLower(yRange, levels, i)
        yUpper == PlusDY(yLower, yRange)
    IN  [j \in 0..Samples |->
            InBandLebesgue(fn[X(domain, j, Samples)], yLower, yUpper,
                           i = levels - 1)]

MkSlice(yBase, height, s) ==
    [yBase |-> yBase, height |-> height,
     segments |-> s.segments, measure |-> s.measure]

getLebesgueSlices(fn, domain, yRange, levels) ==
    [k \in 1..levels |->
        MkSlice(YLower(yRange, levels, k - 1), DY(yRange, levels),
                Scan(domain, LebesgueInBand(fn, domain, yRange, levels, k - 1)))]

\* the sub-level test y <= yLower
InBandLayerCake_SubLevel(y, yLower) == LE(y, yLower)

\* lines 215 and 258: y >= yLower
InBandLayerCake(y, yLower) == GE(y, yLower)

LayerCakeInBand(fn, domain, yLower) ==
    [j \in 0..Samples |-> InBandLayerCake(fn[X(domain, j, Samples)], yLower)]

getLayerCakeSlices(fn, domain, yRange, levels) ==
    [k \in 1..levels |->
        MkSlice(YLower(yRange, levels, k - 1), DY(yRange, levels),
                Scan(domain, LayerCakeInBand(fn, domain,
                                             YLower(yRange, levels, k - 1))))]

\* the strict test y > t
getSliceGeometry_Strict(fn, domain, t, dt) ==
    MkSlice(t, dt, Scan(domain, [j \in 0..Samples |->
                                    GT(fn[X(domain, j, Samples)], t)]))

getSliceGeometry(fn, domain, t, dt) ==
    MkSlice(t, dt, Scan(domain, LayerCakeInBand(fn, domain, t)))

\* ------------------------------------------------------- Riemann sum ----
\* RiemannVisualizer.  dx = (hi - lo)/n; an x and the sum are held in units
\* of 1/n (x of rectangle i is X(domain, i, n), its width DX(domain)), a
\* sample point in units of 1/(2n).  The sum is a mixed number
\* whole + num/den, 0 <= num < den, den the denominator of the heights.
RiemannSumType == {"LEFT", "RIGHT", "MIDPOINT"}

\* every count is read as the stored one: infinite mode has no effect
effectivePartitions_Stored(partitions, isInfinite) == partitions

effectivePartitions(partitions, isInfinite) ==
    IF isInfinite THEN InfinitePartitions ELSE partitions

\* the midpoint rule samples the right end
SampleOffset_MidAsRight(sumType) ==
    CASE sumType = "LEFT" -> 0
      [] sumType = "RIGHT" -> 2
      [] sumType = "MIDPOINT" -> 2

\* xSample - xLeft in units of dx/2: xLeft, xRight = xLeft + dx or
\* (xLeft + xRight)/2
SampleOffset(sumType) ==
    CASE sumType = "LEFT" -> 0
      [] sumType = "RIGHT" -> 2
      [] sumType = "MIDPOINT" -> 1

\* xSample of sub-interval i in units of 1/(2n)
XSample(domain, i, n, sumType) ==
    2 * X(domain, i, n) + SampleOffset(sumType) * DX(domain)

\* calculatedSum += height * dx, in units of 1/n
AddTerm(sum, height, domain) ==
    LET s == sum.num + height.n * DX(domain)
    IN  [whole |-> sum.whole + s \div height.d, num |-> s % height.d,
         den |-> height.d]

\* the sum of two sums with the same denominator (0 has denominator 1)
AddSums(s1, s2) ==
    LET den == IF s1.den > s2.den THEN s1.den ELSE s2.den
        s == s1.num + s2.num
    IN  [whole |-> s1.whole + s2.whole + s \div den, num |-> s % den,
         den |-> den]

\* what iterations a..b-1 of the loop add to calculatedRects and
\* calculatedSum; the iterations are summed by halves
RECURSIVE RiemannLoop(_, _, _, _, _, _, _)
RiemannLoop(id, n, sumType, isInfinite, rand, a, b) ==
    IF b <= a THEN [rects |-> <<>>, sum |-> [whole |-> 0, num |-> 0, den |-> 1]]
    ELSE IF b = a + 1
         THEN LET domain == FUNCTIONS(id).domain
                  height == Fn(id, XSample(domain, a, n, sumType), 2 * n,
                               rand[a % RandPeriod])
              IN  [rects |-> IF isInfinite THEN <<>>
                             ELSE <<[x |-> X(domain, a, n),
                                     width |-> DX(domain), height |-> height]>>,
                   sum |-> AddTerm([whole |-> 0, num |-> 0, den |-> 1],
                                   height, domain)]
    ELSE LET m == (a + b) \div 2
             left == RiemannLoop(id, n, sumType, isInfinite, rand, a, m)
             right == RiemannLoop(id, n, sumType, isInfinite, rand, m, b)
         IN  [rects |-> left.rects \o right.rects,
              sum |-> AddSums(left.sum, right.sum)]

\* the value { rects, sum } of the useMemo
RiemannMemo(id, partitions, sumType, isInfinite, rand) ==
    LET n == effectivePartitions(partitions, isInfinite)
    IN  RiemannLoop(id, n, sumType, isInfinite, rand, 0, n)

\* ------------------------------------------------ integrateMeasureCurve ----
\* the table of a catalog function on the grid of calculateMeasure, values
\* in thousandths; LINEAR and STEP are whole numbers of thousandths there
TableOf(id, domain, samples) ==
    [x \in {X(domain, j, samples) : j \in 0..samples} |->
        LET y == Fn(id, x, samples, FALSE) IN (y.n * 1000) \div y.d]

\* the threshold yRange[0] + (i + 0.5)*dt, dt = (yRange[1] - yRange[0])/steps
MidT(yRange, steps, i) ==
    Rat(yRange[1] * 2 * steps + (2 * i + 1) * (yRange[2] - yRange[1]), 2 * steps)

\* the sum of the measures mu of thresholds a..b-1, in units of 1/samples;
\* the thresholds are summed by halves
RECURSIVE MuLoop(_, _, _, _, _, _, _)
MuLoop(fn, domain, yRange, steps, samples, a, b) ==
    IF b <= a THEN 0
    ELSE IF b = a + 1
         THEN calculateMeasure(fn, domain, MidT(yRange, steps, a), samples)
    ELSE LET m == (a + b) \div 2
         IN  MuLoop(fn, domain, yRange, steps, samples, a, m)
             + MuLoop(fn, domain, yRange, steps, samples, m, b)

\* sum of mu / steps: the width of yRange is lost from dt
integrateMeasureCurve_UnitRange(fn, domain, yRange) ==
    Rat(MuLoop(fn, domain, yRange, IntegrateSteps, DefaultSamples, 0, IntegrateSteps)
         * 1000,
        IntegrateSteps * DefaultSamples * 1000)

\* sum of mu * dt: a fraction in units of 1, dt being
\* (yRange[1] - yRange[0])/steps thousandths
integrateMeasureCurve(fn, domain, yRange) ==
    Rat(MuLoop(fn, domain, yRange, IntegrateSteps, DefaultSamples, 0, IntegrateSteps)
         * (yRange[2] - yRange[1]),
        IntegrateSteps * DefaultSamples * 1000)

\* ------------------------------------------------ LebesgueVisualizer ----
\* The values of the hooks of one render.  A memo that returns a constant
\* holds it: [] (Empty), 0 (Zero), null (Null).  A memo that calls an engine
\* routine holds the call, the routine with its numeric arguments after
\* config.fn and config.domain; its value is what the routine returns.
Empty == [kind |-> "empty"]
Zero == [kind |-> "zero"]
Null == [kind |-> "null"]
NotRendered == [kind |-> "none"]
EngineCall(routine, args) == [kind |-> "call", routine |-> routine, args |-> args]

\* probeT: null or a number of thousandths
NullProbe == [isNull |-> TRUE, value |-> 0]
Probe(v) == [isNull |-> FALSE, value |-> v]

Max(a, b) == IF a >= b THEN a ELSE b
yMin(id) == FUNCTIONS(id).range[1]
yMax(id) == FUNCTIONS(id).range[2]
areaYMin(id) == Max(0, yMin(id))
currentT(id, pT) == IF pT.isNull THEN (yMax(id) + yMin(id)) \div 2 ELSE pT.value

measureSlices(id, levels, isInfinite) ==
    IF id = "DIRICHLET" \/ isInfinite THEN Empty
    ELSE EngineCall("getLebesgueSlices", <<yMin(id), yMax(id), levels>>)

areaSlices(id, levels, isInfinite) ==
    IF id = "DIRICHLET" \/ isInfinite THEN Empty
    ELSE EngineCall("getLayerCakeSlices", <<areaYMin(id), yMax(id), levels>>)

measureCurvePoints(id) ==
    IF id = "DIRICHLET" THEN Empty
    ELSE EngineCall("getMeasureCurve", <<yMin(id), yMax(id), 100>>)

totalSum(id, isInfinite) ==
    IF id = "DIRICHLET" THEN Zero
    ELSE IF isInfinite
         THEN EngineCall("integrateMeasureCurve", <<yMin(id), yMax(id)>>)
    ELSE [kind |-> "reduce"]

maxAreaSum(id) ==
    IF id = "DIRICHLET" THEN Zero
    ELSE EngineCall("integrateMeasureCurve", <<areaYMin(id), yMax(id)>>)

accumulatedArea(id, pT) ==
    IF id = "DIRICHLET" THEN Zero
    ELSE EngineCall("integrateMeasureCurve",
                    <<areaYMin(id), Max(areaYMin(id), currentT(id, pT))>>)

currentMeasure(id, pT) ==
    IF id = "DIRICHLET" THEN Zero
    ELSE EngineCall("calculateMeasure", <<currentT(id, pT)>>)

\* dt = isInfinite ? 0 : (yMax - areaYMin) / levels
dt(id, levels, isInfinite) ==
    IF isInfinite THEN Rat(0, 1) ELSE Rat(yMax(id) - areaYMin(id), levels)

\* the test on config.id is missing
dynamicActiveSlice_NoDirichletTest(id, levels, isInfinite, vm, pT, coarse) ==
    IF vm # "area" \/ coarse \/ isInfinite THEN Null
    ELSE EngineCall("getSliceGeometry",
                    <<currentT(id, pT), dt(id, levels, isInfinite).n,
                      dt(id, levels, isInfinite).d>>)

dynamicActiveSlice(id, levels, isInfinite, vm, pT, coarse) ==
    IF vm # "area" \/ coarse \/ id = "DIRICHLET" \/ isInfinite THEN Null
    ELSE EngineCall("getSliceGeometry",
                    <<currentT(id, pT), dt(id, levels, isInfinite).n,
                      dt(id, levels, isInfinite).d>>)

\* currentT - (currentT % dt) for dt = n/d: the multiple of dt next to
\* currentT towards 0, as a fraction over d
GridT(t, q) ==
    IF t >= 0 THEN Rat(((t * q.d) \div q.n) * q.n, q.d)
    ELSE Rat(-((((-t) * q.d) \div q.n) * q.n), q.d)

\* the label "Width" of the slicing view: reached after the early return
\* for DIRICHLET, in the view 'area', when !isDirichlet && !isInfinite
widthLabel(id, levels, isInfinite, vm, pT, coarse) ==
    IF id = "DIRICHLET" \/ vm # "area" \/ isInfinite \/ ~coarse THEN NotRendered
    ELSE LET g == GridT(currentT(id, pT), dt(id, levels, isInfinite))
         IN  EngineCall("calculateMeasure", <<g.n, g.d>>)

\* one render of LebesgueVisualizer
LebesgueRender(id, levels, isInfinite, vm, pT, coarse) ==
    [measureSlices |-> measureSlices(id, levels, isInfinite),
     areaSlices |-> areaSlices(id, levels, isInfinite),
     measureCurvePoints |-> measureCurvePoints(id),
     totalSum |-> totalSum(id, isInfinite),
     maxAreaSum |-> maxAreaSum(id),
     accumulatedArea |-> accumulatedArea(id, pT),
     currentMeasure |-> currentMeasure(id, pT),
     dynamicActiveSlice |-> dynamicActiveSlice(id, levels, isInfinite, vm, pT, coarse),
     widthLabel |-> widthLabel(id, levels, isInfinite, vm, pT, coarse)]

\* a slider that starts at 0
PartitionsSlider_FromZero == {0, 100}

\* values the sliders and the probe are moved to: min and max of each input
PartitionsSlider == {2, 100}
LevelsSlider == {2, 50}
ProbeSlider(id) == {yMin(id), yMax(id)}

\* ------------------------------------------------------------ state ----
\* pc: "idle" before a call, "done" when a routine has returned
\* call: the routine called and its arguments
\* result: the status of the call and the value it returned, in the field
\*         measure (calculateMeasure), points (getMeasureCurve), slices
\*         (getLebesgueSlices, getLayerCakeSlices), slice
\*         (getSliceGeometry), polyline (generatePoints), integral
\*         (integrateMeasureCurve) or effectivePartitions, rects and sum
\*         (RiemannVisualizer, with run and first for a second run on the
\*         same props); no routine has
\*         a throw statement, so the
\*         status is "returned" after every call
\* divByZero: the call evaluated a quotient whose divisor was 0
VARIABLES pc, call, result, divByZero
\* the state of App (selectedFunc .. isLebesgueInfinite) and of
\* LebesgueVisualizer (viewMode, probeT, isCoarseMode);
\* effectPending: the effect on config.id has not run since the last change
\* of selectedFunc (or since the mount); lebesgue: the hooks of the last
\* render of LebesgueVisualizer
VARIABLES selectedFunc, riemannPartitions, riemannType, isRiemannInfinite,
          lebesgueLevels, isLebesgueInfinite, viewMode, probeT, isCoarseMode,
          effectPending, lebesgue
engineVars == <<pc, call, result, divByZero>>
appVars == <<selectedFunc, riemannPartitions, riemannType, isRiemannInfinite,
             lebesgueLevels, isLebesgueInfinite>>
panelVars == <<viewMode, probeT, isCoarseMode>>
uiVars == <<appVars, panelVars, effectPending, lebesgue>>
vars == <<engineVars, uiVars>>

Init ==
    /\ pc = "idle"
    /\ call = [routine |-> "none"]
    /\ result = [status |-> "none"]
    /\ divByZero = FALSE
    /\ selectedFunc = "X_SQUARED"
    /\ riemannPartitions = 10
    /\ riemannType = "LEFT"
    /\ isRiemannInfinite = FALSE
    /\ lebesgueLevels = 5
    /\ isLebesgueInfinite = FALSE
    /\ viewMode = "area"
    /\ probeT = NullProbe
    /\ isCoarseMode = FALSE
    /\ effectPending = TRUE
    /\ lebesgue = LebesgueRender("X_SQUARED", 5, FALSE, "area", NullProbe, FALSE)

CallGeneratePoints(V) ==
    /\ pc = "idle"
    /\ \E domain \in Domains, steps \in 0..MaxPoints :
       \E fn \in [PointGrid(domain, steps) -> V] :
          /\ call' = [routine |-> "generatePoints", fn |-> fn,
                      domain |-> domain, steps |-> steps]
          /\ result' = [status |-> "returned",
                         polyline |-> generatePoints(fn, domain, steps)]
          /\ divByZero' = (steps = 1)
    /\ pc' = "done"
    /\ UNCHANGED uiVars

\* calculateMeasure(fn, domain, t, samples); with `samples` cells the grid
\* is the one of Grid(domain) only for samples = Samples, and no point is
\* evaluated for samples = 0
CallCalculateMeasure(V) ==
    /\ pc = "idle"
    /\ \E domain \in Domains, t \in Thresholds, samples \in {0, Samples} :
       \E fn \in Fns(domain, V) :
          /\ call' = [routine |-> "calculateMeasure", fn |-> fn,
                      domain |-> domain, t |-> t, samples |-> samples]
          /\ result' = [status |-> "returned",
                         measure |-> calculateMeasure(fn, domain, Rat(t, 1), samples)]
          /\ divByZero' = (samples = 0)
    /\ pc' = "done"
    /\ UNCHANGED uiVars

CallGetMeasureCurve(V) ==
    /\ pc = "idle"
    /\ \E domain \in Domains, yRange \in YRanges, steps \in 1..MaxSteps :
       \E fn \in Fns(domain, V) :
          /\ call' = [routine |-> "getMeasureCurve", fn |-> fn,
                      domain |-> domain, yRange |-> yRange, steps |-> steps]
          /\ result' = [status |-> "returned",
                         points |-> getMeasureCurve(fn, domain, yRange, steps)]
          /\ divByZero' = FALSE
    /\ pc' = "done"
    /\ UNCHANGED uiVars

CallGetLebesgueSlices(V) ==
    /\ pc = "idle"
    /\ \E domain \in Domains, yRange \in YRanges, levels \in 0..MaxLevels :
       \E fn \in Fns(domain, V) :
          /\ call' = [routine |-> "getLebesgueSlices", fn |-> fn,
                      domain |-> domain, yRange |-> yRange, levels |-> levels]
          /\ result' = [status |-> "returned",
                         slices |-> getLebesgueSlices(fn, domain, yRange, levels)]
          /\ divByZero' = (levels = 0)
    /\ pc' = "done"
    /\ UNCHANGED uiVars

CallGetLayerCakeSlices(V) ==
    /\ pc = "idle"
    /\ \E domain \in Domains, yRange \in YRanges, levels \in 0..MaxLevels :
       \E fn \in Fns(domain, V) :
          /\ call' = [routine |-> "getLayerCakeSlices", fn |-> fn,
                      domain |-> domain, yRange |-> yRange, levels |-> levels]
          /\ result' = [status |-> "returned",
                         slices |-> getLayerCakeSlices(fn, domain, yRange, levels)]
          /\ divByZero' = (levels = 0)
    /\ pc' = "done"
    /\ UNCHANGED uiVars

CallGetSliceGeometry(V) ==
    /\ pc = "idle"
    /\ \E domain \in Domains, t \in Thresholds :
       \E fn \in Fns(domain, V) :
          /\ call' = [routine |-> "getSliceGeometry", fn |-> fn,
                      domain |-> domain, t |-> t, dt |-> 1]
          /\ result' = [status |-> "returned",
                         slice |-> getSliceGeometry(fn, domain, Rat(t, 1), Rat(1, 1))]
          /\ divByZero' = FALSE
    /\ pc' = "done"
    /\ UNCHANGED uiVars

\* a render of RiemannVisualizer with props functionId, partitions, sumType
\* and isInfinite: the useMemo computes { rects, sum }; `first` keeps the
\* memo of the first render with these props
RenderRiemann ==
    /\ pc = "idle"
    /\ \E id \in ExactFunctions, partitions \in PartitionCounts,
          sumType \in RiemannSumType, isInfinite \in BOOLEAN,
          rand \in Randoms :
          /\ id # "DIRICHLET" => rand = NoRandom
          /\ LET memo == RiemannMemo(id, partitions, sumType, isInfinite, rand)
             IN  /\ call' = [routine |-> "RiemannVisualizer", functionId |-> id,
                             partitions |-> partitions, sumType |-> sumType,
                             isInfinite |-> isInfinite]
                 /\ result' = [status |-> "returned", run |-> 1,
                                effectivePartitions |->
                                    effectivePartitions(partitions, isInfinite),
                                rects |-> memo.rects, sum |-> memo.sum,
                                first |-> memo]
    /\ divByZero' = FALSE
    /\ pc' = "done"
    /\ UNCHANGED uiVars

\* the component is mounted again with the same props: the useMemo runs
\* again on the same inputs
RerenderRiemann ==
    /\ pc = "done"
    /\ call.routine = "RiemannVisualizer"
    /\ result.run = 1
    /\ \E rand \in Randoms :
          /\ call.functionId # "DIRICHLET" => rand = NoRandom
          /\ LET memo == RiemannMemo(call.functionId, call.partitions,
                                     call.sumType, call.isInfinite, rand)
             IN  result' = [result EXCEPT !.run = 2, !.rects = memo.rects,
                                          !.sum = memo.sum]
    /\ UNCHANGED <<pc, call, divByZero>>
    /\ UNCHANGED uiVars

\* integrateMeasureCurve(config.fn, config.domain, yRange) as
\* LebesgueVisualizer calls it: over the range of the function or over
\* [areaYMin, tEnd] up to the middle of the range
CallIntegrateMeasureCurve ==
    /\ pc = "idle"
    /\ \E id \in TableFunctions :
       \E yRange \in {FUNCTIONS(id).range,
                      <<FUNCTIONS(id).range[1],
                        (FUNCTIONS(id).range[1] + FUNCTIONS(id).range[2]) \div 2>>} :
          LET domain == FUNCTIONS(id).domain
              fn == TableOf(id, domain, DefaultSamples)
          IN  /\ call' = [routine |-> "integrateMeasureCurve", functionId |-> id,
                          domain |-> domain, yRange |-> yRange]
              /\ result' = [status |-> "returned",
                             integral |-> integrateMeasureCurve(fn, domain, yRange)]
    /\ divByZero' = FALSE
    /\ pc' = "done"
    /\ UNCHANGED uiVars

\* the caller drops the result of the last call
Return ==
    /\ pc = "done"
    /\ pc' = "idle"
    /\ call' = [routine |-> "none"]
    /\ result' = [status |-> "none"]
    /\ divByZero' = FALSE
    /\ UNCHANGED uiVars

Next ==
    \/ CallGeneratePoints(FiniteVals)
    \/ CallCalculateMeasure(FiniteVals)
    \/ CallGetMeasureCurve(FiniteVals)
    \/ CallGetLebesgueSlices(FiniteVals)
    \/ CallGetLayerCakeSlices(FiniteVals)
    \/ CallGetSliceGeometry(FiniteVals)
    \/ Return

Spec == Init /\ [][Next]_vars

\* the same calls on functions that return NaN at some points
NextNonFinite ==
    \/ CallGeneratePoints(NonFiniteVals)
    \/ CallCalculateMeasure(NonFiniteVals)
    \/ CallGetMeasureCurve(NonFiniteVals)
    \/ CallGetLebesgueSlices(NonFiniteVals)
    \/ CallGetLayerCakeSlices(NonFiniteVals)
    \/ CallGetSliceGeometry(NonFiniteVals)
    \/ Return

SpecNonFinite == Init /\ [][NextNonFinite]_vars

\* the Riemann sum and the integral of the measure curve on the catalog
NextCatalog ==
    \/ RenderRiemann
    \/ RerenderRiemann
    \/ CallIntegrateMeasureCurve
    \/ Return

SpecCatalog == Init /\ [][NextCatalog]_vars

\* ------------------------------------------------------- UI actions ----
\* the render that follows a state change: the hooks of LebesgueVisualizer
\* are evaluated on the new state
Rendered ==
    lebesgue' = LebesgueRender(selectedFunc', lebesgueLevels', isLebesgueInfinite',
                               viewMode', probeT', isCoarseMode')

\* an event handler runs once the effects of the last render have run
Handles == ~effectPending /\ UNCHANGED engineVars

\* App: a function button; config.id changes when another function is set
SelectFunction ==
    /\ Handles
    /\ \E f \in FunctionType :
          /\ selectedFunc' = f
          /\ effectPending' = (f # selectedFunc)
    /\ UNCHANGED <<riemannPartitions, riemannType, isRiemannInfinite,
                   lebesgueLevels, isLebesgueInfinite, panelVars>>
    /\ Rendered

\* the button also puts the stored count back to its initial value
RiemannInfinityButton_ResetsCount ==
    /\ Handles
    /\ ~isRiemannInfinite
    /\ isRiemannInfinite' = TRUE
    /\ riemannPartitions' = 10
    /\ UNCHANGED <<selectedFunc, riemannType, lebesgueLevels,
                   isLebesgueInfinite, panelVars, effectPending>>
    /\ Rendered

\* App: the button "n -> infinity", disabled in infinite mode
RiemannInfinityButton ==
    /\ Handles
    /\ ~isRiemannInfinite
    /\ isRiemannInfinite' = TRUE
    /\ UNCHANGED <<selectedFunc, riemannPartitions, riemannType, lebesgueLevels,
                   isLebesgueInfinite, panelVars, effectPending>>
    /\ Rendered

\* the slider is wired to the levels too
RiemannPartitionsSlider_SetsLevels ==
    /\ Handles
    /\ \E n \in PartitionsSlider : riemannPartitions' = n /\ lebesgueLevels' = n
    /\ isRiemannInfinite' = FALSE
    /\ UNCHANGED <<selectedFunc, riemannType,
                   isLebesgueInfinite, panelVars, effectPending>>
    /\ Rendered

\* App: the partitions slider
RiemannPartitionsSlider ==
    /\ Handles
    /\ \E n \in PartitionsSlider : riemannPartitions' = n
    /\ isRiemannInfinite' = FALSE
    /\ UNCHANGED <<selectedFunc, riemannType, lebesgueLevels,
                   isLebesgueInfinite, panelVars, effectPending>>
    /\ Rendered

\* App: a sum type button
RiemannTypeButton ==
    /\ Handles
    /\ \E t \in RiemannSumType : riemannType' = t
    /\ UNCHANGED <<selectedFunc, riemannPartitions, isRiemannInfinite,
                   lebesgueLevels, isLebesgueInfinite, panelVars, effectPending>>
    /\ Rendered

\* App: the button "N -> infinity", disabled in infinite mode
LebesgueInfinityButton ==
    /\ Handles
    /\ ~isLebesgueInfinite
    /\ isLebesgueInfinite' = TRUE
    /\ UNCHANGED <<selectedFunc, riemannPartitions, riemannType,
                   isRiemannInfinite, lebesgueLevels, panelVars, effectPending>>
    /\ Rendered

\* App: the levels slider
LebesgueLevelsSlider ==
    /\ Handles
    /\ \E n \in LevelsSlider : lebesgueLevels' = n
    /\ isLebesgueInfinite' = FALSE
    /\ UNCHANGED <<selectedFunc, riemannPartitions, riemannType,
                   isRiemannInfinite, panelVars, effectPending>>
    /\ Rendered

\* RiemannVisualizer: the slider of topControls, disabled in infinite mode;
\* the panel has no controls for DIRICHLET
RiemannPanelSlider ==
    /\ Handles
    /\ selectedFunc # "DIRICHLET"
    /\ ~isRiemannInfinite
    /\ \E n \in PartitionsSlider : riemannPartitions' = n
    /\ isRiemannInfinite' = IF isRiemannInfinite THEN FALSE ELSE isRiemannInfinite
    /\ UNCHANGED <<selectedFunc, riemannType, lebesgueLevels,
                   isLebesgueInfinite, panelVars, effectPending>>
    /\ Rendered

\* RiemannVisualizer: the toggle of topControls
RiemannPanelToggle ==
    /\ Handles
    /\ selectedFunc # "DIRICHLET"
    /\ isRiemannInfinite' = ~isRiemannInfinite
    /\ UNCHANGED <<selectedFunc, riemannPartitions, riemannType, lebesgueLevels,
                   isLebesgueInfinite, panelVars, effectPending>>
    /\ Rendered

\* LebesgueVisualizer: the buttons Measure and Slicing; the panel has no
\* controls for DIRICHLET
ViewModeButton ==
    /\ Handles
    /\ selectedFunc # "DIRICHLET"
    /\ \E m \in {"measure", "area"} : viewMode' = m
    /\ UNCHANGED <<appVars, probeT, isCoarseMode, effectPending>>
    /\ Rendered

\* LebesgueVisualizer: the levels slider, disabled in infinite mode
LebesguePanelSlider ==
    /\ Handles
    /\ selectedFunc # "DIRICHLET"
    /\ ~isLebesgueInfinite
    /\ \E n \in LevelsSlider : lebesgueLevels' = n
    /\ isLebesgueInfinite' = IF isLebesgueInfinite THEN FALSE ELSE isLebesgueInfinite
    /\ UNCHANGED <<selectedFunc, riemannPartitions, riemannType,
                   isRiemannInfinite, panelVars, effectPending>>
    /\ Rendered

\* LebesgueVisualizer: the toggle "Toggle Infinity"
LebesguePanelToggle ==
    /\ Handles
    /\ selectedFunc # "DIRICHLET"
    /\ isLebesgueInfinite' = ~isLebesgueInfinite
    /\ UNCHANGED <<selectedFunc, riemannPartitions, riemannType,
                   isRiemannInfinite, lebesgueLevels, panelVars, effectPending>>
    /\ Rendered

\* LebesgueVisualizer: the probe slider of the view 'measure' or 'area',
\* min = yMin and max = yMax of the function shown
ProbeSliderMove ==
    /\ Handles
    /\ selectedFunc # "DIRICHLET"
    /\ viewMode \in {"measure", "area"}
    /\ \E v \in ProbeSlider(selectedFunc) : probeT' = Probe(v)
    /\ UNCHANGED <<appVars, viewMode, isCoarseMode, effectPending>>
    /\ Rendered

\* LebesgueVisualizer: the button Coarse/Fine of the view 'area', disabled
\* in infinite mode
CoarseModeButton ==
    /\ Handles
    /\ selectedFunc # "DIRICHLET"
    /\ viewMode = "area"
    /\ ~isLebesgueInfinite
    /\ isCoarseMode' = ~isCoarseMode
    /\ UNCHANGED <<appVars, viewMode, probeT, effectPending>>
    /\ Rendered

\* the effect without its else branch
FunctionChangeEffect_NoWayBack ==
    /\ effectPending
    /\ viewMode' = IF selectedFunc = "DIRICHLET" THEN "theory" ELSE viewMode
    /\ effectPending' = FALSE
    /\ UNCHANGED <<engineVars, appVars, probeT, isCoarseMode>>
    /\ Rendered

\* LebesgueVisualizer: the effect with dependency config.id
FunctionChangeEffect ==
    /\ effectPending
    /\ viewMode' = IF selectedFunc = "DIRICHLET" THEN "theory"
                   ELSE IF viewMode = "theory" THEN "area"
                   ELSE viewMode
    /\ effectPending' = FALSE
    /\ UNCHANGED <<engineVars, appVars, probeT, isCoarseMode>>
    /\ Rendered

NextUI ==
    \/ SelectFunction
    \/ RiemannInfinityButton
    \/ RiemannPartitionsSlider
    \/ RiemannTypeButton
    \/ LebesgueInfinityButton
    \/ LebesgueLevelsSlider
    \/ RiemannPanelSlider
    \/ RiemannPanelToggle
    \/ ViewModeButton
    \/ LebesguePanelSlider
    \/ LebesguePanelToggle
    \/ ProbeSliderMove
    \/ CoarseModeButton
    \/ FunctionChangeEffect

SpecUI == Init /\ [][NextUI]_vars

\* React runs the effect of a committed render: a pending effect runs
SpecUIFair == SpecUI /\ WF_vars(FunctionChangeEffect)

\* ---- the curve polylines of GraphPanel and LebesgueVisualizer ----
\* const step = (domain[1] - domain[0]) / 200;
\* for (let x = domain[0]; x <= domain[1]; x += step) pts.push({x, y: fn(x)})
\* x is kept in units of 1/PolylineCells, so that step is domain[1] - domain[0]
PolylineCells == 200

PolylineLoops == {"GraphPanel.points", "LebesgueVisualizer.funcPoints"}

PolylineDomains == Domains \cup {FUNCTIONS(id).domain : id \in FunctionType}

\* the length of pts is counted up to this number and no further
PolylineCountCap == PolylineCells + 2

PolylineStepSize(domain) == domain[2] - domain[1]

\* the loop test x <= config.domain[1]
PolylineTest(x, domain) == x <= domain[2] * PolylineCells

\* let x = config.domain[0], const pts = []
PolylineStart(loop, domain) ==
    /\ pc = "idle"
    /\ pc' = "loop"
    /\ call' = [routine |-> loop, domain |-> domain]
    /\ result' = [status |-> "running", x |-> domain[1] * PolylineCells,
                  points |-> 0]
    /\ divByZero' = FALSE
    /\ UNCHANGED uiVars

\* one iteration: pts.push({x, y: config.fn(x)}); x += step
PolylineIterate ==
    /\ pc = "loop"
    /\ PolylineTest(result.x, call.domain)
    /\ result' = [result EXCEPT
                     !.x = @ + PolylineStepSize(call.domain),
                     !.points = IF @ < PolylineCountCap THEN @ + 1 ELSE @]
    /\ UNCHANGED <<pc, call, divByZero, uiVars>>

\* the test fails: return pts
PolylineReturn ==
    /\ pc = "loop"
    /\ ~PolylineTest(result.x, call.domain)
    /\ pc' = "done"
    /\ result' = [result EXCEPT !.status = "returned"]
    /\ UNCHANGED <<call, divByZero, uiVars>>

NextPolyline ==
    \/ \E loop \in PolylineLoops, domain \in PolylineDomains :
          PolylineStart(loop, domain)
    \/ PolylineIterate
    \/ PolylineReturn
    \/ Return

SpecPolyline == Init /\ [][NextPolyline]_vars

\* ========================================================= properties ====
Called(r) == pc = "done" /\ call.routine = r
Slicers == {"getLebesgueSlices", "getLayerCakeSlices", "getSliceGeometry"}
\* a slicer has returned for a domain with lo < hi
SlicerDone == pc = "done" /\ call.routine \in Slicers /\ call.domain \in ValidDomains
\* the slices a slicer returned, as a sequence
SlicesOf ==
    IF call.routine = "getSliceGeometry" THEN <<result.slice>> ELSE result.slices

RECURSIVE SegSum(_)
SegSum(segs) ==
    IF segs = <<>> THEN 0 ELSE (Head(segs)[2] - Head(segs)[1]) + SegSum(Tail(segs))
Abs(n) == IF n < 0 THEN -n ELSE n
\* the sample points j of a scan whose function value is v
SamplesAt(v) == {j \in 0..Samples : call.fn[X(call.domain, j, Samples)] = v}

\* C1: every slice a slicer returns for a domain lo < hi has
\* |measure - sum of (xEnd - xStart) over its segments| <= dx, one grid cell.
C1_MeasureWithinOneCell ==
    SlicerDone =>
        \A k \in DOMAIN SlicesOf :
            Abs(SlicesOf[k].measure - SegSum(SlicesOf[k].segments))
                <= DX(call.domain)

\* C2: every band getLebesgueSlices returns for a domain lo < hi has measure
\* equal to the sum of its segment lengths, a run open at the final sample
\* included.
C2_MeasureEqualsSegmentSum ==
    (Called("getLebesgueSlices") /\ call.domain \in ValidDomains) =>
        \A k \in DOMAIN result.slices :
            result.slices[k].measure = SegSum(result.slices[k].segments)

\* the bands of the getLebesgueSlices call for which sample point j is in range
BandsOf(j) ==
    {i \in 0..(call.levels - 1) :
        LebesgueInBand(call.fn, call.domain, call.yRange, call.levels, i)[j]}

\* C3 as stated: for getLebesgueSlices with levelCount >= 1, every sample
\* point is in range for exactly one band.
C3_EverySampleInExactlyOneBand ==
    (Called("getLebesgueSlices") /\ call.levels >= 1) =>
        \A j \in 0..Samples : Cardinality(BandsOf(j)) = 1

\* C3 as amended: no sample point is in range for two bands; for a value
\* range lo <= hi a sample point is in range for exactly one band when its
\* value lies in [lo, hi + 0.001] and for no band otherwise.
C3_SamplesOfTheRangeInExactlyOneBand ==
    (Called("getLebesgueSlices") /\ call.levels >= 1) =>
        /\ \A j \in 0..Samples : Cardinality(BandsOf(j)) <= 1
        /\ call.yRange[1] <= call.yRange[2] =>
              \A j \in 0..Samples :
                 LET y == call.fn[X(call.domain, j, Samples)]
                 IN  (Cardinality(BandsOf(j)) = 1) <=>
                       (call.yRange[1] <= y /\ y <= call.yRange[2] + Epsilon)

\* a two-band call in which both bands have a sample, one sample lies on the
\* boundary of the two bands and one above the last band
C3_Witness ==
    /\ Called("getLebesgueSlices")
    /\ call.levels = 2 /\ call.yRange = <<0, 2>>
    /\ SamplesAt(0) # {} /\ SamplesAt(1) # {} /\ SamplesAt(4) # {}
    /\ result.slices[1].measure > 0 /\ result.slices[2].measure > 0

\* C4: in every slice a slicer returns for a domain lo < hi, the segments are
\* in increasing x order and do not overlap: xEnd_k <= xStart_(k+1).
C4_SegmentsOrdered ==
    SlicerDone =>
        \A k \in DOMAIN SlicesOf :
            LET segs == SlicesOf[k].segments
            IN  \A m \in 1..(Len(segs) - 1) : segs[m][2] <= segs[m + 1][1]

\* a slice with two segments, the second one closed at domain.hi
C4_Witness ==
    /\ SlicerDone
    /\ \E k \in DOMAIN SlicesOf :
          /\ Len(SlicesOf[k].segments) >= 2
          /\ SlicesOf[k].segments[Len(SlicesOf[k].segments)][2]
                = call.domain[2] * Samples

\* C5: every segment a slicer emits for a domain lo < hi has xStart < xEnd,
\* a segment whose run is the final sample alone included.
C5_SegmentsPositiveWidth ==
    SlicerDone =>
        \A k \in DOMAIN SlicesOf :
            \A m \in DOMAIN SlicesOf[k].segments :
                SlicesOf[k].segments[m][1] < SlicesOf[k].segments[m][2]

\* the sample points in range for band i of the getLayerCakeSlices call
CakeSamples(i) ==
    LET inBand == LayerCakeInBand(call.fn, call.domain,
                                  YLower(call.yRange, call.levels, i))
    IN  {j \in 0..Samples : inBand[j]}
\* segment a lies within segment b
SegWithin(a, b) == b[1] <= a[1] /\ a[2] <= b[2]

\* C6: for getLayerCakeSlices with a value range lo <= hi (and a domain
\* lo < hi) the bands are nested: the in-range sample points of band i+1 are
\* in range for band i, every segment of band i+1 lies within a segment of
\* band i, and measure_i >= measure_(i+1).
C6_LayerCakeNested ==
    (/\ Called("getLayerCakeSlices")
     /\ call.domain \in ValidDomains
     /\ call.yRange[1] <= call.yRange[2]) =>
        \A k \in 1..(call.levels - 1) :
            LET lower == result.slices[k]
                upper == result.slices[k + 1]
            IN  /\ CakeSamples(k) \subseteq CakeSamples(k - 1)
                /\ \A m \in DOMAIN upper.segments :
                      \E n \in DOMAIN lower.segments :
                          SegWithin(upper.segments[m], lower.segments[n])
                /\ lower.measure >= upper.measure

\* two nested bands, the upper one not empty and strictly smaller
C6_Witness ==
    /\ Called("getLayerCakeSlices")
    /\ call.domain \in ValidDomains
    /\ call.yRange[1] < call.yRange[2]
    /\ call.levels = 2
    /\ result.slices[2].segments # <<>>
    /\ result.slices[1].measure > result.slices[2].measure

\* C7: for a domain lo < hi and thresholds t1 < t2,
\* calculateMeasure(fn, domain, t1) >= calculateMeasure(fn, domain, t2), and
\* of two points of getMeasureCurve the one with the larger t has the
\* smaller or equal mu.
C7_MeasureMonotone ==
    /\ (Called("calculateMeasure") /\ call.domain \in ValidDomains) =>
          \A t2 \in Thresholds :
              call.t < t2 =>
                  result.measure >= calculateMeasure(call.fn, call.domain,
                                                     Rat(t2, 1), call.samples)
    /\ (Called("getMeasureCurve") /\ call.domain \in ValidDomains) =>
          \A a, b \in DOMAIN result.points :
              RatLT(result.points[a].x, result.points[b].x) =>
                  result.points[a].y >= result.points[b].y

\* a curve of three points whose measure falls strictly, twice
C7_Witness ==
    /\ Called("getMeasureCurve")
    /\ call.domain \in ValidDomains
    /\ Len(result.points) = 3
    /\ RatLT(result.points[1].x, result.points[2].x)
    /\ result.points[1].y > result.points[2].y
    /\ result.points[2].y > result.points[3].y

\* C8: for a function constant at c over a domain lo < hi, the band of
\* getLebesgueSlices that contains c has the one segment [lo, hi] and measure
\* hi - lo; every other band has no segment and measure 0.
C8_ConstantFunctionBand ==
    (/\ Called("getLebesgueSlices")
     /\ call.domain \in ValidDomains
     /\ \E c \in FiniteVals : SamplesAt(c) = 0..Samples) =>
        \A k \in DOMAIN result.slices :
            IF (k - 1) \in BandsOf(0)
            THEN /\ result.slices[k].segments
                      = << <<call.domain[1] * Samples, call.domain[2] * Samples>> >>
                 /\ result.slices[k].measure
                      = (call.domain[2] - call.domain[1]) * Samples
            ELSE /\ result.slices[k].segments = <<>>
                 /\ result.slices[k].measure = 0

\* the call has an invalid parameter: samples = 0, levelCount = 0 or a
\* domain with lo >= hi
InvalidParameters ==
    \/ call.domain \in InvalidDomains
    \/ call.routine = "calculateMeasure" /\ call.samples = 0
    \/ call.routine \in {"getLebesgueSlices", "getLayerCakeSlices"}
          /\ call.levels = 0

\* C9: a call with an invalid parameter ends in an error, returns no normal
\* result and computes no division by zero.
C9_InvalidParametersFail ==
    (pc = "done" /\ InvalidParameters) =>
        (result.status = "error" /\ ~divByZero)

\* the grid points at which the call evaluates fn
Evaluated ==
    CASE call.routine = "calculateMeasure" ->
            {X(call.domain, i, call.samples) : i \in 0..(call.samples - 1)}
      [] call.routine \in {"getLebesgueSlices", "getLayerCakeSlices"} ->
            IF call.levels = 0 THEN {} ELSE Grid(call.domain)
      [] call.routine = "getSliceGeometry" -> Grid(call.domain)
      [] call.routine = "getMeasureCurve" ->
            {X(call.domain, i, Samples) : i \in 0..(Samples - 1)}
      [] call.routine = "generatePoints" -> PointGrid(call.domain, call.steps)
      [] OTHER -> {}

\* C10: a call in which fn returns a non-finite value at a sample it
\* evaluates ends in an error and returns no normal result.
C10_NonFiniteValueFails ==
    (pc = "done" /\ \E x \in Evaluated : call.fn[x] = NaN) =>
        result.status = "error"

\* C13: for a domain lo < hi and samples >= 1, calculateMeasure is dx times
\* the number of i in 0..samples-1 with fn(lo + i*dx) > t, does not depend
\* on the value of fn at domain.hi, and lies in [0, hi - lo].
C13_MeasureIsLeftSampleCount ==
    (/\ Called("calculateMeasure")
     /\ call.domain \in ValidDomains
     /\ call.samples >= 1) =>
        LET above == {i \in 0..(call.samples - 1) :
                         call.fn[X(call.domain, i, call.samples)] > call.t}
            hi == call.domain[2] * call.samples
        IN  /\ result.measure = Cardinality(above) * DX(call.domain)
            /\ \A v \in FiniteVals :
                  calculateMeasure([call.fn EXCEPT ![hi] = v], call.domain,
                                   Rat(call.t, 1), call.samples)
                      = result.measure
            /\ 0 <= result.measure
            /\ result.measure <= (call.domain[2] - call.domain[1]) * call.samples

\* fn exceeds t at domain.hi and at one more sample, but not everywhere
C13_Witness ==
    /\ Called("calculateMeasure")
    /\ call.domain \in ValidDomains
    /\ call.samples = Samples
    /\ call.fn[call.domain[2] * Samples] > call.t
    /\ result.measure = DX(call.domain)

\* the value of sample point j of the getLebesgueSlices call
ValueAt(j) == call.fn[X(call.domain, j, Samples)]
\* the bounds of band i of the call, multiplied by levels
LowerTimesLevels(i) ==
    call.yRange[1] * call.levels + i * (call.yRange[2] - call.yRange[1])

\* C14: in getLebesgueSlices with a value range lo < hi, a band below the
\* last holds the samples with yLower <= f(x) < yUpper, so that a sample on
\* the boundary of bands i and i+1 is in band i+1 and not in band i; the last
\* band holds the samples with yLower <= f(x) <= valueRange.hi + 0.001.
C14_BandsHalfOpen ==
    (/\ Called("getLebesgueSlices")
     /\ call.levels >= 1
     /\ call.yRange[1] < call.yRange[2]) =>
        \A j \in 0..Samples :
            LET y == ValueAt(j) * call.levels
            IN  /\ \A i \in 0..(call.levels - 2) :
                      /\ (i \in BandsOf(j)) <=>
                            (LowerTimesLevels(i) <= y /\ y < LowerTimesLevels(i + 1))
                      /\ y = LowerTimesLevels(i + 1) =>
                            ((i + 1) \in BandsOf(j) /\ i \notin BandsOf(j))
                /\ ((call.levels - 1) \in BandsOf(j)) <=>
                      /\ LowerTimesLevels(call.levels - 1) <= y
                      /\ ValueAt(j) <= call.yRange[2] + Epsilon

\* two bands; samples on their boundary, at the range maximum and at the
\* maximum + 0.001, all counted by the last band
C14_Witness ==
    /\ Called("getLebesgueSlices")
    /\ call.levels = 2 /\ call.yRange = <<0, 2>>
    /\ call.domain \in ValidDomains
    /\ SamplesAt(1) # {} /\ SamplesAt(2) # {} /\ SamplesAt(3) # {}
    /\ SamplesAt(0) = {} /\ SamplesAt(4) = {}
    /\ result.slices[1].measure = 0
    /\ result.slices[2].measure = (Samples + 1) * DX(call.domain)

\* C15: getMeasureCurve returns steps+1 points; point i (i = 0..steps) has
\* t = lo + i*(hi - lo)/steps, so the first t is the range's lo and the last
\* its hi, and mu = dx times the number of the 400 left samples above t; for
\* a value range lo < hi the points are in increasing order of t.
C15_MeasureCurvePoints ==
    Called("getMeasureCurve") =>
        /\ Len(result.points) = call.steps + 1
        /\ \A k \in DOMAIN result.points :
              LET p == result.points[k]
              IN  /\ p.x.d = call.steps
                  /\ p.x.n = call.yRange[1] * call.steps
                               + (k - 1) * (call.yRange[2] - call.yRange[1])
                  /\ p.y = DX(call.domain) * Cardinality(
                        {i \in 0..(Samples - 1) :
                            call.fn[X(call.domain, i, Samples)] * p.x.d > p.x.n})
        /\ result.points[1].x.n = call.yRange[1] * result.points[1].x.d
        /\ LET last == result.points[Len(result.points)].x
           IN  last.n = call.yRange[2] * last.d
        /\ call.yRange[1] < call.yRange[2] =>
              \A k \in 1..(Len(result.points) - 1) :
                  RatLT(result.points[k].x, result.points[k + 1].x)

\* a curve of three points over the range <<0, 2>> with a measure that falls
C15_Witness ==
    /\ Called("getMeasureCurve")
    /\ call.steps = 2 /\ call.yRange = <<0, 2>>
    /\ call.domain \in ValidDomains
    /\ Len(result.points) = 3
    /\ result.points[1].y > result.points[3].y

\* the x values of the polyline start at lo, end at hi and are evenly spaced
EvenlySpaced(pts, domain, cells) ==
    /\ pts[1].x = domain[1] * cells
    /\ pts[Len(pts)].x = domain[2] * cells
    /\ \A k \in 1..(Len(pts) - 1) : pts[k + 1].x - pts[k].x = domain[2] - domain[1]

\* C16 as stated: generatePoints(fn, domain, steps) returns steps+1 points
\* with x evenly spaced from domain.lo (first) to domain.hi (last).
C16_StepsPlusOnePoints ==
    (/\ Called("generatePoints")
     /\ call.domain \in ValidDomains
     /\ call.steps >= 2) =>
        /\ Len(result.polyline) = call.steps + 1
        /\ EvenlySpaced(result.polyline, call.domain, call.steps - 1)

\* C16 as amended: for steps >= 2 and a domain lo < hi, generatePoints
\* returns exactly steps points (x, fn(x)), x evenly spaced from domain.lo
\* (first point) to domain.hi (last point).
C16_StepsPoints ==
    (/\ Called("generatePoints")
     /\ call.domain \in ValidDomains
     /\ call.steps >= 2) =>
        /\ Len(result.polyline) = call.steps
        /\ EvenlySpaced(result.polyline, call.domain, call.steps - 1)
        /\ \A k \in DOMAIN result.polyline :
              result.polyline[k].y = call.fn[result.polyline[k].x]

\* three points over a domain lo < hi, the middle one strictly inside
C16_Witness ==
    /\ Called("generatePoints")
    /\ call.domain \in ValidDomains
    /\ call.steps = 3
    /\ Len(result.polyline) = 3
    /\ result.polyline[1].x < result.polyline[2].x
    /\ result.polyline[2].x < result.polyline[3].x

\* ------------------------------------------------------- Riemann sum ----
\* f(sample_i) of the rendered function for the sample point lo + i*dx
\* (LEFT), lo + (i + 1)*dx (RIGHT) or lo + (i + 1/2)*dx (MIDPOINT), n the
\* partition count in use
SampleHeight(i, n) ==
    LET domain == FUNCTIONS(call.functionId).domain
        twice == CASE call.sumType = "LEFT" -> 2 * i
                   [] call.sumType = "RIGHT" -> 2 * (i + 1)
                   [] call.sumType = "MIDPOINT" -> 2 * i + 1
    IN  Fn(call.functionId,
           2 * n * domain[1] + twice * (domain[2] - domain[1]), 2 * n, FALSE)

\* height * dx in units of 1/n as a mixed number
TermOf(height) ==
    LET t == height.n * DX(FUNCTIONS(call.functionId).domain)
    IN  [whole |-> t \div height.d, num |-> t % height.d, den |-> height.d]

\* the sum of f(sample_i)*dx over i = a..b-1
RECURSIVE TermsTotal(_, _, _)
TermsTotal(a, b, n) ==
    IF b = a + 1 THEN TermOf(SampleHeight(a, n))
    ELSE LET m == (a + b) \div 2
             l == TermsTotal(a, m, n)
             r == TermsTotal(m, b, n)
             s == l.num + r.num
         IN  [whole |-> l.whole + r.whole + s \div l.den, num |-> s % l.den,
              den |-> l.den]

\* the sum of height*dx over the rectangles a+1..b
RECURSIVE RectsTotal(_, _)
RectsTotal(a, b) ==
    IF b = a + 1 THEN TermOf(result.rects[b].height)
    ELSE LET m == (a + b) \div 2
             l == RectsTotal(a, m)
             r == RectsTotal(m, b)
             s == l.num + r.num
         IN  [whole |-> l.whole + r.whole + s \div l.den, num |-> s % l.den,
              den |-> l.den]

\* C11: with n partitions and dx = (hi - lo)/n, rectangle i is (x = lo +
\* i*dx, width = dx, height = f(sample_i)) with the sample point of the
\* rule, and the sum is the sum of f(sample_i)*dx; f is any catalog function
\* that is a function of x (for DIRICHLET the heights are those of the
\* rectangles).
C11_RiemannSumOfSamples ==
    Called("RiemannVisualizer") =>
        LET n == result.effectivePartitions
            domain == FUNCTIONS(call.functionId).domain
        IN  /\ ~call.isInfinite =>
                  /\ Len(result.rects) = n
                  /\ \A i \in 0..(n - 1) :
                        /\ result.rects[i + 1].x = domain[1] * n + i * (domain[2] - domain[1])
                        /\ result.rects[i + 1].width = domain[2] - domain[1]
                        /\ call.functionId # "DIRICHLET" =>
                              result.rects[i + 1].height = SampleHeight(i, n)
                  /\ result.sum = RectsTotal(0, n)
            /\ call.functionId # "DIRICHLET" => result.sum = TermsTotal(0, n, n)

\* x^2 by the midpoint rule on three partitions: the samples are 1/6, 3/6
\* and 5/6, the sum is 35/108
C11_Witness ==
    /\ Called("RiemannVisualizer")
    /\ call.functionId = "X_SQUARED"
    /\ call.sumType = "MIDPOINT"
    /\ ~call.isInfinite
    /\ call.partitions = 3
    /\ result.rects[2].height = Rat(9, 36)
    /\ result.sum = [whole |-> 0, num |-> 35, den |-> 36]

\* C12: in infinite mode the computation uses exactly 1000 partitions
\* whatever the stored partitions value and returns no rectangle; otherwise
\* it uses the stored value and returns that many rectangles; the sum is
\* computed in both cases.
C12_InfiniteModePartitions ==
    Called("RiemannVisualizer") =>
        /\ call.isInfinite =>
              /\ result.effectivePartitions = 1000
              /\ result.rects = <<>>
              /\ call.functionId # "DIRICHLET" =>
                    result.sum = TermsTotal(0, 1000, 1000)
        /\ ~call.isInfinite =>
              /\ result.effectivePartitions = call.partitions
              /\ Len(result.rects) = call.partitions
              /\ call.functionId # "DIRICHLET" =>
                    result.sum = TermsTotal(0, call.partitions, call.partitions)

\* infinite mode with 2 stored partitions: no rectangle, and the left sum of
\* 2x over 1000 partitions, 999/1000
C12_Witness ==
    /\ Called("RiemannVisualizer")
    /\ call.isInfinite
    /\ call.partitions = 2
    /\ call.functionId = "LINEAR"
    /\ call.sumType = "LEFT"
    /\ result.rects = <<>>
    /\ result.sum = [whole |-> 999, num |-> 0, den |-> 2000]

\* |value - 1| <= 1/100 for a fraction
WithinOnePercentOfOne(q) == Abs(q.n - q.d) <= q.d \div 100

\* C17: for f(x) = 2x on [0,1], integrateMeasureCurve(f, [0,1], [0,2.2]) and
\* the 1000-partition MIDPOINT Riemann sum are each within 1% of 1.
C17_LayerCakeAgreesWithRiemann ==
    (/\ Called("integrateMeasureCurve")
     /\ call.functionId = "LINEAR"
     /\ call.yRange = <<0, 2200>>) =>
        LET s == RiemannMemo("LINEAR", 2, "MIDPOINT", TRUE, NoRandom).sum
        IN  /\ call.domain = <<0, 1>>
            /\ WithinOnePercentOfOne(result.integral)
            /\ WithinOnePercentOfOne(Rat(s.whole * s.den + s.num, 1000 * s.den))

\* the integral of the measure curve of 2x is below 1, by less than 1%
C17_Witness ==
    /\ Called("integrateMeasureCurve")
    /\ call.functionId = "LINEAR"
    /\ call.yRange = <<0, 2200>>
    /\ result.integral.n < result.integral.d
    /\ result.integral.n > 0

\* 3*den*n*|sum - 1/3| for a sum held in units of 1/n
ErrorOfThird(sum, n) == Abs(sum.den * (3 * sum.whole - n) + 3 * sum.num)

\* C18: for f(x) = x^2 on [0,1] and each rule, |sum_n - 1/3| strictly
\* decreases along n = 10, 100, 1000: the error at n is above the error at
\* 10n for n = 10 and n = 100.
C18_ErrorDecreases ==
    (/\ Called("RiemannVisualizer")
     /\ call.functionId = "X_SQUARED"
     /\ ~call.isInfinite
     /\ call.partitions \in {10, 100}) =>
        LET n == call.partitions
            next == RiemannLoop("X_SQUARED", 10 * n, call.sumType, TRUE,
                                NoRandom, 0, 10 * n).sum
        IN  /\ result.sum.den = 4 * n * n
            /\ next.den = 400 * n * n
            /\ ErrorOfThird(result.sum, n) > ErrorOfThird(next, 10 * n) \div 1000

\* the midpoint sum of x^2 on 100 partitions is not 1/3
C18_Witness ==
    /\ Called("RiemannVisualizer")
    /\ call.functionId = "X_SQUARED"
    /\ call.sumType = "MIDPOINT"
    /\ ~call.isInfinite
    /\ call.partitions = 100
    /\ ErrorOfThird(result.sum, 100) > 0

\* C19: a second run on the same inputs gives the output of the first
C19_SecondRunIdentical ==
    (Called("RiemannVisualizer") /\ result.run = 2) =>
        /\ result.sum = result.first.sum
        /\ result.rects = result.first.rects

\* ------------------------------------------------ LebesgueVisualizer ----
\* the engine routines the last render of LebesgueVisualizer invoked
Invoked ==
    {lebesgue[m].routine :
        m \in {m \in DOMAIN lebesgue : lebesgue[m].kind = "call"}}

\* C20: when the selected function is DIRICHLET, LebesgueVisualizer invokes
\* no engine routine: measureSlices, areaSlices and measureCurvePoints are
\* empty, totalSum, maxAreaSum, accumulatedArea and currentMeasure are 0 and
\* dynamicActiveSlice is null.
C20_DirichletBypassesEngine ==
    selectedFunc = "DIRICHLET" =>
        /\ Invoked = {}
        /\ lebesgue.measureSlices = Empty
        /\ lebesgue.areaSlices = Empty
        /\ lebesgue.measureCurvePoints = Empty
        /\ lebesgue.totalSum = Zero
        /\ lebesgue.maxAreaSum = Zero
        /\ lebesgue.accumulatedArea = Zero
        /\ lebesgue.currentMeasure = Zero
        /\ lebesgue.dynamicActiveSlice = Null

\* DIRICHLET has just been selected in the fine slicing view with finite
\* levels: the effect has not yet set the view 'theory', so only the test on
\* config.id keeps the memos from the engine
C20_Witness ==
    /\ selectedFunc = "DIRICHLET"
    /\ effectPending
    /\ viewMode = "area"
    /\ ~isCoarseMode
    /\ ~isLebesgueInfinite
    /\ lebesgue.dynamicActiveSlice = Null

\* ---------------------------------------------------------- controls ----
RiemannSideAction ==
    \/ RiemannInfinityButton
    \/ RiemannPartitionsSlider
    \/ RiemannTypeButton
    \/ RiemannPanelSlider
    \/ RiemannPanelToggle

LebesgueSideAction ==
    \/ LebesgueInfinityButton
    \/ LebesgueLevelsSlider
    \/ LebesguePanelSlider
    \/ LebesguePanelToggle

\* C22: once the function-change effect has run, viewMode is 'theory' if and
\* only if the selected function is DIRICHLET; and a non-Dirichlet function
\* selected while the view is 'theory' leads to the view 'area'.
C22_TheoryIffDirichlet ==
    /\ [](~effectPending => (viewMode = "theory" <=> selectedFunc = "DIRICHLET"))
    /\ (selectedFunc # "DIRICHLET" /\ viewMode = "theory") ~> (viewMode = "area")

\* a non-Dirichlet function has been selected after DIRICHLET and the effect
\* has not run yet
C22_Witness ==
    /\ selectedFunc # "DIRICHLET"
    /\ viewMode = "theory"
    /\ effectPending

\* C23: a Riemann-side action leaves lebesgueLevels and isLebesgueInfinite
\* unchanged, a Lebesgue-side action leaves riemannPartitions, riemannType
\* and isRiemannInfinite unchanged, and selecting a function changes none of
\* the five.
C23_ControlsIndependent ==
    [][/\ RiemannSideAction => UNCHANGED <<lebesgueLevels, isLebesgueInfinite>>
       /\ LebesgueSideAction =>
             UNCHANGED <<riemannPartitions, riemannType, isRiemannInfinite>>
       /\ selectedFunc' # selectedFunc =>
             UNCHANGED <<riemannPartitions, riemannType, isRiemannInfinite,
                         lebesgueLevels, isLebesgueInfinite>>]_vars

\* every Riemann control has been used, the Lebesgue state is the initial one
C23_Witness ==
    /\ riemannPartitions = 100
    /\ riemannType = "RIGHT"
    /\ isRiemannInfinite
    /\ lebesgueLevels = 5
    /\ ~isLebesgueInfinite

\* C27: riemannPartitions is in 2..100 and lebesgueLevels in 2..50 in every
\* reachable state, so effectivePartitions is in 2..100 or is 1000 and the
\* divisors of dx and dy are never 0.
C27_CountsInSliderRange ==
    /\ riemannPartitions \in 2..100
    /\ lebesgueLevels \in 2..50
    /\ effectivePartitions(riemannPartitions, isRiemannInfinite) \in (2..100) \cup {1000}
    /\ effectivePartitions(riemannPartitions, isRiemannInfinite) # 0
    /\ lebesgueLevels # 0

\* both sliders at their minimum, the Riemann side in infinite mode
C27_Witness ==
    /\ riemannPartitions = 2
    /\ lebesgueLevels = 2
    /\ isRiemannInfinite
    /\ ~isLebesgueInfinite

\* C28: entering or leaving infinite mode by a button or a toggle keeps the
\* stored count, so that the count in effect after leaving by the toggle is
\* the stored one; a slider change leaves the flag false and the stored
\* count at a slider value.
C28_InfiniteModeKeepsCount ==
    [][/\ (RiemannInfinityButton \/ RiemannPanelToggle) =>
             /\ riemannPartitions' = riemannPartitions
             /\ isRiemannInfinite' # isRiemannInfinite
             /\ ~isRiemannInfinite' =>
                   effectivePartitions(riemannPartitions', isRiemannInfinite')
                       = riemannPartitions
       /\ (LebesgueInfinityButton \/ LebesguePanelToggle) =>
             /\ lebesgueLevels' = lebesgueLevels
             /\ isLebesgueInfinite' # isLebesgueInfinite
       /\ (RiemannPartitionsSlider \/ RiemannPanelSlider) =>
             /\ ~isRiemannInfinite'
             /\ riemannPartitions' \in PartitionsSlider
       /\ (LebesgueLevelsSlider \/ LebesguePanelSlider) =>
             /\ ~isLebesgueInfinite'
             /\ lebesgueLevels' \in LevelsSlider]_vars

\* infinite mode on both sides with the initial counts still stored
C28_Witness ==
    /\ isRiemannInfinite
    /\ isLebesgueInfinite
    /\ riemannPartitions = 10
    /\ lebesgueLevels = 5

\* C29: the probe height currentT lies within the value range of the
\* selected function.
C29_ProbeWithinRange ==
    /\ yMin(selectedFunc) <= currentT(selectedFunc, probeT)
    /\ currentT(selectedFunc, probeT) <= yMax(selectedFunc)

\* ------------------------------------------------------ run-merge scan ----
\* inRange at the sample points 0..Samples for slice k of the call
InBandOf(k) ==
    CASE call.routine = "getLebesgueSlices" ->
            LebesgueInBand(call.fn, call.domain, call.yRange, call.levels, k - 1)
      [] call.routine = "getLayerCakeSlices" ->
            LayerCakeInBand(call.fn, call.domain,
                            YLower(call.yRange, call.levels, k - 1))
      [] call.routine = "getSliceGeometry" ->
            LayerCakeInBand(call.fn, call.domain, Rat(call.t, 1))

\* the first samples of the maximal runs of in-band samples
RunStarts(b) == {j \in 0..Samples : b[j] /\ (j = 0 \/ ~b[j - 1])}
\* the last sample of the run that starts at sample j
RunLast(b, j) ==
    CHOOSE k \in j..Samples :
        /\ \A i \in j..k : b[i]
        /\ (k = Samples \/ ~b[k + 1])
\* the segment of the run that starts at sample j: it ends at the first
\* out-of-band sample that follows, or at domain.hi
RunSegment(b, j) ==
    <<X(call.domain, j, Samples),
      IF RunLast(b, j) = Samples THEN call.domain[2] * Samples
      ELSE X(call.domain, RunLast(b, j) + 1, Samples)>>

\* C24: for a domain lo < hi the scan emits exactly one segment per maximal
\* run of consecutive in-band samples, from the first sample of the run to
\* the first out-of-band sample after it (domain.hi for a run open at the
\* final sample), and no out-of-band sample lies in [xStart, xEnd) of a
\* segment.
C24_OneSegmentPerRun ==
    SlicerDone =>
        \A k \in DOMAIN SlicesOf :
            LET b == InBandOf(k)
                segs == SlicesOf[k].segments
            IN  /\ Len(segs) = Cardinality(RunStarts(b))
                /\ {segs[i] : i \in DOMAIN segs} = {RunSegment(b, j) : j \in RunStarts(b)}
                /\ \A i \in DOMAIN segs : \A j \in 0..Samples :
                      (/\ segs[i][1] <= X(call.domain, j, Samples)
                       /\ X(call.domain, j, Samples) < segs[i][2]) => b[j]

\* C26: at every step of the scan currentStart is the sentinel -1 if and
\* only if no run is open: the scan has just started or the previous sample
\* was out of band.
C26_SentinelIffNoRunOpen ==
    SlicerDone =>
        \A k \in DOMAIN SlicesOf : \A j \in 0..(Samples + 1) :
            LET b == InBandOf(k)
            IN  (ScanLoop(call.domain, b, j).currentStart = NoRun)
                    <=> (j = 0 \/ ~b[j - 1])

C30_ProbeAtLeastMeasure ==
    (Called("getSliceGeometry") /\ call.domain \in ValidDomains) =>
        result.slice.measure
            >= calculateMeasure(call.fn, call.domain, Rat(call.t, 1), Samples)

\* the probe counts more: the sample at domain.hi or a sample with f(x) = t
C30_Witness ==
    /\ Called("getSliceGeometry")
    /\ call.domain \in ValidDomains
    /\ calculateMeasure(call.fn, call.domain, Rat(call.t, 1), Samples) > 0
    /\ result.slice.measure
           > calculateMeasure(call.fn, call.domain, Rat(call.t, 1), Samples)

\* C21: the curve-polyline loops of GraphPanel and of LebesgueVisualizer
\* (x from lo, x += (hi - lo)/200 while x <= hi) terminate for every domain
\* lo <= hi, the degenerate lo = hi included: x advances by one cell in each
\* iteration, so the loop has pushed at most 201 points when it is still
\* running and when it returns.
C21_PolylineLoopsTerminate ==
    (call.routine \in PolylineLoops /\ call.domain[1] <= call.domain[2]) =>
        result.points <= PolylineCells + 1
====
